---- MODULE Spec2Model ----
(***************************************************************************)
(* Appointment / payment status reconciliation of the healthcare           *)
(* dashboards: AppointmentsList, AdminDashboard, PaymentStatusDebug and    *)
(* Reports. One component is mounted at a time (one route of the router    *)
(* renders); the backend is the environment: it accepts or rejects every   *)
(* request.                                                                *)
(***************************************************************************)
EXTENDS Integers, Sequences, FiniteSets, TLC

VARIABLES
    view,               \* the mounted component: "list", "admin", "debug" or "reports"
    mounted,            \* TRUE once the component's mount effect has run
    torn,               \* TRUE once the component has been unmounted
    role,               \* user.role of the signed-in user
    server,             \* the backend's appointment list (source of record)
    appointments,       \* useState `appointments` (AppointmentsList, PaymentStatusDebug)
    doctors,            \* useState `doctors` (AppointmentsList)
    patients,           \* useState `patients` (AppointmentsList)
    loading,            \* useState `loading` of the mounted component
    stats,              \* useState `stats` (AdminDashboard)
    recentUsers,        \* useState `recentUsers` (AdminDashboard)
    recentAppointments, \* useState `recentAppointments` (AdminDashboard)
    aptFetch,           \* bag of the fetchAppointments calls that have not settled
    usrFetch,           \* the calls of fetchDoctors / fetchPatients
    dashFetch,          \* bag of the fetchDashboardData calls that have not settled
    lastJoin,           \* how the three GETs stood when the last Promise.all settled
    loadError,          \* a 'Failed to load ...' toast has been shown
    ops,                \* bag of the status / payment handler invocations that are running
    last,               \* the handler invocation that returned last
    clicks,             \* number of handler invocations so far
    reportData,         \* useState `reportData` (Reports)
    selectedTimeRange,  \* useState `selectedTimeRange` (Reports)
    reportType,         \* useState `reportType` (Reports)
    isRefreshing,       \* useState `isRefreshing` (Reports)
    realTimeMode,       \* useState `realTimeMode` (Reports)
    intervals,          \* number of setInterval timers that have not been cleared
    interval,           \* `interval` of the real-time effect that ran last
    repFetch,           \* bag of the fetchReportData calls that have not settled
    searchTerm,         \* useState `searchTerm` (AppointmentsList), as characters
    statusFilter,       \* useState `statusFilter` (AppointmentsList)
    dateFilter,         \* useState `dateFilter` (AppointmentsList)
    now,                \* the clock: seconds of local time since the year began
    screen,             \* what the last render put on the screen
    user,               \* useState `user` (AuthProvider)
    authLoading,        \* useState `loading` (AuthProvider)
    token,              \* localStorage 'token'
    header,             \* axios.defaults.headers.common['Authorization']
    meFetch,            \* the GET /auth/me of the AuthProvider mount effect
    loginFetch,         \* number of POST /auth/login calls that have not settled
    loggedOut,          \* logout has run and no login has succeeded since
    path,               \* the location of the BrowserRouter
    page                \* the element <Routes> rendered last

vars == <<view, mounted, torn, role, server, appointments, doctors, patients, loading,
          stats, recentUsers, recentAppointments, aptFetch, usrFetch, dashFetch,
          lastJoin, loadError, ops, last, clicks, reportData, selectedTimeRange,
          reportType, isRefreshing, realTimeMode, intervals, interval, repFetch,
          searchTerm, statusFilter, dateFilter, now, screen,
          user, authLoading, token, header, meFetch, loginFetch, loggedOut, path, page>>

----------------------------------------------------------------------------
(* Bounds *)

\* number of handler invocations (clicks) in one behaviour
MaxOps == 2

\* number of fetchReportData calls in flight at once
MaxInFlight == 2

\* number of POST /auth/login calls in flight at once
MaxLogins == 2

----------------------------------------------------------------------------
(* Vocabulary *)

Views == {"list", "admin", "debug"}
Roles == {"patient", "doctor", "admin"}
LifecycleValues == {"scheduled", "completed", "cancelled"}
PaymentValues == {"pending", "paid", "overdue"}
ClickableStatus == {"completed", "cancelled"}

Apt(i, s, p) == [id |-> i, status |-> s, payment_status |-> p]

\* the collection the backend starts with; the same two records the debug
\* tool is constructed with
SampleAppointments == <<Apt("a1", "scheduled", "pending"), Apt("a2", "completed", "paid")>>

ServerDoctors == <<"d1">>
ServerPatients == <<"p1", "p2", "p3", "p4", "p5", "p6">>
ServerStats == "stats"
EmptyStats == "{}"

\* usersRes.data.slice(0, 5), appointmentsRes.data.slice(0, 5)
RecentLimit == 5
Slice(s, n) == SubSeq(s, 1, IF Len(s) < n THEN Len(s) ELSE n)

\* request shapes
PatchParam == "PATCH /appointments/{id}/payment-status ?payment_status"
PutBody == "PUT /appointments/{id} {payment_status}"
PatchBody == "PATCH /appointments/{id} {payment_status}"
PutStatusParam == "PUT /appointments/{id} ?status"
Shapes == {PatchParam, PutBody, PatchBody, PutStatusParam}

Sources == {"stats", "users", "appointments"}

----------------------------------------------------------------------------
(* Pure helpers *)

\* coll.some(apt => apt.id === id), coll.find(apt => apt.id === id)
HasApt(coll, id) == \E i \in 1..Len(coll) : coll[i].id = id
AptOf(coll, id) == coll[CHOOSE i \in 1..Len(coll) : coll[i].id = id]

\* a map that forgets the id test
MapPaymentStatusAll(coll, appointmentId, paymentStatus) ==
    [i \in 1..Len(coll) |-> [coll[i] EXCEPT !.payment_status = paymentStatus]]

\* appointments.map(apt => apt.id === appointmentId
\*                         ? { ...apt, payment_status: paymentStatus } : apt)
MapPaymentStatus(coll, appointmentId, paymentStatus) ==
    [i \in 1..Len(coll) |->
        IF coll[i].id = appointmentId
        THEN [coll[i] EXCEPT !.payment_status = paymentStatus]
        ELSE coll[i]]

\* the backend's effect of an accepted request
ServerApply(srv, shape, appointmentId, value) ==
    [i \in 1..Len(srv) |->
        IF srv[i].id = appointmentId
        THEN IF shape = PutStatusParam
             THEN [srv[i] EXCEPT !.status = value]
             ELSE [srv[i] EXCEPT !.payment_status = value]
        ELSE srv[i]]

\* the request shapes a payment-status handler tries, in order
ListPaymentChain == <<PatchParam, PatchBody>>
AdminPaymentChain == <<PatchParam, PutBody, PatchBody>>
DebugPaymentChain == <<PatchParam>>
StatusChain == <<PutStatusParam>>

Chain(v, kind) ==
    IF kind = "status" THEN StatusChain
    ELSE IF v = "list" THEN ListPaymentChain
    ELSE IF v = "admin" THEN AdminPaymentChain
    ELSE DebugPaymentChain

----------------------------------------------------------------------------
(* Handler invocations *)

NoOp == [kind |-> "none", id |-> "", value |-> "", captured |-> <<>>,
         log |-> <<>>, toasts |-> <<>>, outcome |-> "none"]

Ev(e, shape) == [ev |-> e, shape |-> shape]

\* shapes issued by an invocation, in order
RECURSIVE Issued(_)
Issued(log) ==
    IF log = <<>> THEN <<>>
    ELSE IF Head(log).ev = "issue" THEN <<Head(log).shape>> \o Issued(Tail(log))
    ELSE Issued(Tail(log))

EvShapes(log, e) == {log[i].shape : i \in {j \in 1..Len(log) : log[j].ev = e}}

\* requests of an invocation that are in flight
Pending(op) == EvShapes(op.log, "issue") \ (EvShapes(op.log, "ok") \cup EvShapes(op.log, "fail"))

\* Calls in flight are kept as bags: two calls in the same state are the same
\* to the program, and a call that has settled leaves nothing but its effect.
EmptyBag == <<>>
BagCount(b, e) == IF e \in DOMAIN b THEN b[e] ELSE 0
BagAdd(b, e) == IF e \in DOMAIN b THEN [b EXCEPT ![e] = @ + 1] ELSE b @@ (e :> 1)
BagRemove(b, e) == IF b[e] = 1 THEN [x \in DOMAIN b \ {e} |-> b[x]] ELSE [b EXCEPT ![e] = @ - 1]
BagSize(b) == LET RECURSIVE Sum(_)
                  Sum(S) == IF S = {} THEN 0
                            ELSE LET x == CHOOSE y \in S : TRUE IN b[x] + Sum(S \ {x})
              IN Sum(DOMAIN b)

\* a GET /appointments the backend has not answered yet
SentFetch == [st |-> "sent", data |-> <<>>]
\* a fetchDashboardData call whose three GETs are all in flight
OpenDash == [src |-> [s \in Sources |-> "pending"], data |-> <<>>]
NoJoin == [s \in Sources |-> "none"]

----------------------------------------------------------------------------
(* App: the routes and ProtectedRoute *)

\* the roles a user record may carry, the three of the application and another
AnyRoles == Roles \cup {"nurse"}

\* AuthProvider's `user`: null or the user record of the backend
NoUser == [present |-> FALSE, role |-> ""]
User(r) == [present |-> TRUE, role |-> r]

\* what a route element renders: a component, the spinner of ProtectedRoute,
\* or <Navigate to=... replace />
Page(component) == [kind |-> "page", name |-> component]
Spinner == [kind |-> "spinner", name |-> ""]
Navigate(to) == [kind |-> "navigate", name |-> to]

\* the <ProtectedRoute allowedRoles={...}> routes: path, allowedRoles, child
ProtectedRoutes ==
    {<<"/patient-dashboard", {"patient"}, "PatientDashboard">>,
     <<"/doctor-dashboard", {"doctor"}, "DoctorDashboard">>,
     <<"/admin-dashboard", {"admin"}, "AdminDashboard">>,
     <<"/book-appointment", {"patient"}, "AppointmentBooking">>,
     <<"/medical-records", {}, "MedicalRecords">>,
     <<"/prescriptions", {}, "Prescriptions">>,
     <<"/chat/:userId", {}, "Chat">>,
     <<"/payment-success", {}, "PaymentSuccess">>,
     <<"/payment-cancelled", {}, "PaymentCancelled">>,
     <<"/user-management", {"admin"}, "UserManagement">>,
     <<"/appointments", {}, "AppointmentsList">>,
     <<"/reports", {"admin"}, "Reports">>,
     <<"/settings", {"admin"}, "Settings">>,
     <<"/profile", {}, "Profile">>,
     <<"/payment-debug", {"admin"}, "PaymentStatusDebug">>}

PublicPaths == {"/login", "/register", "/unauthorized", "/"}
Paths == PublicPaths \cup {r[1] : r \in ProtectedRoutes}

\* a ProtectedRoute that tests the role before it tests the user
ProtectedRouteRoleFirst(u, isLoading, allowedRoles, children) ==
    IF isLoading THEN Spinner
    ELSE IF allowedRoles # {} /\ u.role \notin allowedRoles THEN Navigate("/unauthorized")
    ELSE Page(children)

\* ProtectedRoute
ProtectedRoute(u, isLoading, allowedRoles, children) ==
    IF isLoading THEN Spinner
    ELSE IF ~u.present THEN Navigate("/login")
    ELSE IF allowedRoles # {} /\ u.role \notin allowedRoles THEN Navigate("/unauthorized")
    ELSE Page(children)

\* getDashboardRoute
GetDashboardRoute(u) ==
    IF ~u.present THEN "/login"
    ELSE CASE u.role = "patient" -> "/patient-dashboard"
           [] u.role = "doctor" -> "/doctor-dashboard"
           [] u.role = "admin" -> "/admin-dashboard"
           [] OTHER -> "/login"

\* the element <Routes> renders for a path
Element(location, u, isLoading) ==
    CASE location = "/login" -> IF u.present THEN Navigate(GetDashboardRoute(u)) ELSE Page("Login")
      [] location = "/register" -> IF u.present THEN Navigate(GetDashboardRoute(u))
                               ELSE Page("Register")
      [] location = "/unauthorized" -> Page("Unauthorized")
      [] location = "/" -> Navigate(GetDashboardRoute(u))
      [] OTHER -> LET r == CHOOSE r \in ProtectedRoutes : r[1] = location
                  IN ProtectedRoute(u, isLoading, r[2], r[3])

\* the route and the component of each view
ViewPath == [list |-> "/appointments", admin |-> "/admin-dashboard",
             debug |-> "/payment-debug", reports |-> "/reports"]
ViewComponent == [list |-> "AppointmentsList", admin |-> "AdminDashboard",
                  debug |-> "PaymentStatusDebug", reports |-> "Reports"]

\* the router renders the component of view v for a signed-in user of role r
Routed(v, r) == Element(ViewPath[v], User(r), FALSE) = Page(ViewComponent[v])

\* payment controls shown whatever the role
PaymentControlsAnyRole(v, r) == TRUE

\* {user.role === 'admin' && (...)} around the payment buttons of the list;
\* the dashboard and the debug tool render theirs for every user they render for
PaymentControls(v, r) == v = "list" => r = "admin"

----------------------------------------------------------------------------
(* Initial state: a component is constructed, its effects have not run *)

\* nothing has been rendered
Blank == [shown |-> FALSE]

\* what the Reports component is constructed with
NoReport == [from |-> "none", time_range |-> "", report_type |-> ""]
NoInterval == [set |-> FALSE, time_range |-> "", report_type |-> ""]

\* no token in localStorage, no Authorization header
NoToken == "none"

\* the user has signed in and the router has rendered the view's component
SignedIn ==
    /\ user = User(role)
    /\ authLoading = FALSE
    /\ token = "t0"
    /\ header = "t0"
    /\ meFetch = "ok"
    /\ loginFetch = 0
    /\ loggedOut = FALSE
    /\ path = ViewPath[view]
    /\ page = Page(ViewComponent[view])

\* the state every component is constructed with
Fresh ==
    /\ mounted = FALSE
    /\ torn = FALSE
    /\ reportData = NoReport
    /\ selectedTimeRange = "month"
    /\ reportType = "overview"
    /\ isRefreshing = FALSE
    /\ realTimeMode = FALSE
    /\ intervals = 0
    /\ interval = NoInterval
    /\ repFetch = EmptyBag
    /\ searchTerm = <<>>
    /\ statusFilter = "all"
    /\ dateFilter = "all"
    /\ now = 0
    /\ screen = Blank
    /\ server = SampleAppointments
    /\ appointments = IF view = "debug" THEN SampleAppointments ELSE <<>>
    /\ doctors = <<>>
    /\ patients = <<>>
    /\ loading = (view # "debug")
    /\ stats = EmptyStats
    /\ recentUsers = <<>>
    /\ recentAppointments = <<>>
    /\ aptFetch = EmptyBag
    /\ usrFetch = [w \in {"doctors", "patients"} |-> "none"]
    /\ dashFetch = EmptyBag
    /\ lastJoin = NoJoin
    /\ loadError = FALSE
    /\ ops = EmptyBag
    /\ last = NoOp
    /\ clicks = 0

Constructed(vs) ==
    /\ view \in vs
    /\ role \in Roles
    /\ Routed(view, role)
    /\ Fresh
    /\ SignedIn

Init == Constructed(Views)

----------------------------------------------------------------------------
(* AppointmentsList *)

listState == <<appointments, doctors, patients>>
adminState == <<stats, recentUsers, recentAppointments>>
reportState == <<reportData, selectedTimeRange, reportType, isRefreshing, realTimeMode,
                 intervals, interval, repFetch>>
\* what no step of AppointmentsList, AdminDashboard or PaymentStatusDebug changes
filterState == <<searchTerm, statusFilter, dateFilter>>
appState == <<user, authLoading, token, header, meFetch, loginFetch, loggedOut, path, page>>
session == <<view, role, torn, reportState, filterState, now, screen, appState>>
handlers == <<ops, last, clicks>>
dashVars == <<dashFetch, lastJoin>>

\* useEffect(() => { fetchAppointments(); if (admin) { fetchDoctors(); fetchPatients(); } }, [])
MountList ==
    /\ view = "list" /\ ~mounted
    /\ mounted' = TRUE
    /\ aptFetch' = BagAdd(aptFetch, SentFetch)
    /\ usrFetch' = IF role = "admin" THEN [w \in {"doctors", "patients"} |-> "sent"]
                   ELSE usrFetch
    /\ UNCHANGED <<session, server, listState, loading, adminState, dashVars, loadError, handlers>>

\* the backend answers a GET /appointments: the response carries its list
FetchAppointmentsServe ==
    /\ BagCount(aptFetch, SentFetch) > 0
    /\ aptFetch' = BagAdd(BagRemove(aptFetch, SentFetch), [st |-> "served", data |-> server])
    /\ UNCHANGED <<session, mounted, server, listState, loading, adminState, usrFetch,
                   dashVars, loadError, handlers>>

\* a fetch that keeps the local record of every appointment it already shows
FetchAppointmentsMerge(coll, data) ==
    [i \in 1..Len(data) |->
        IF HasApt(coll, data[i].id) THEN AptOf(coll, data[i].id) ELSE data[i]]

\* setAppointments(response.data)
FetchAppointmentsApply(coll, data) == data

\* fetchAppointments: the try branch after the await, then finally
FetchAppointmentsDone(f) ==
    /\ f.st = "served" /\ BagCount(aptFetch, f) > 0
    /\ appointments' = FetchAppointmentsApply(appointments, f.data)
    /\ loading' = FALSE
    /\ aptFetch' = BagRemove(aptFetch, f)
    /\ UNCHANGED <<session, mounted, server, doctors, patients, adminState, usrFetch,
                   dashVars, loadError, handlers>>

\* fetchAppointments: the catch branch (toast.error), then finally
FetchAppointmentsFail ==
    /\ BagCount(aptFetch, SentFetch) > 0
    /\ loading' = FALSE
    /\ loadError' = TRUE
    /\ aptFetch' = BagRemove(aptFetch, SentFetch)
    /\ UNCHANGED <<session, mounted, server, listState, adminState, usrFetch, dashVars, handlers>>

\* fetchDoctors / fetchPatients: success sets the list, failure only logs
FetchUsersSettle(w, ok) ==
    /\ usrFetch[w] = "sent"
    /\ usrFetch' = [usrFetch EXCEPT ![w] = IF ok THEN "done" ELSE "failed"]
    /\ doctors' = IF w = "doctors" /\ ok THEN ServerDoctors ELSE doctors
    /\ patients' = IF w = "patients" /\ ok THEN ServerPatients ELSE patients
    /\ UNCHANGED <<session, mounted, server, appointments, loading, adminState, aptFetch,
                   dashVars, loadError, handlers>>

----------------------------------------------------------------------------
(* AdminDashboard *)

\* useEffect(() => { fetchDashboardData(); }, [])
MountAdmin ==
    /\ view = "admin" /\ ~mounted
    /\ mounted' = TRUE
    /\ dashFetch' = BagAdd(dashFetch, OpenDash)
    /\ UNCHANGED <<session, server, listState, loading, adminState, aptFetch, usrFetch,
                   lastJoin, loadError, ops, last, clicks>>

\* Promise.all([...]): rejects with the first rejection, fulfils when all
\* three have fulfilled
JoinState(src) ==
    IF \E s \in Sources : src[s] = "fail" THEN "failed"
    ELSE IF \A s \in Sources : src[s] = "ok" THEN "applied"
    ELSE "open"

\* One of the three GETs of a fetchDashboardData call settles. When that
\* settles the Promise.all, the try / catch / finally of fetchDashboardData
\* runs; the GETs still in flight then are answered into the void.
DashSourceSettle(f, s, ok) ==
    /\ BagCount(dashFetch, f) > 0
    /\ f.src[s] = "pending"
    /\ LET src2 == [f.src EXCEPT ![s] = IF ok THEN "ok" ELSE "fail"]
           data2 == IF s = "appointments" /\ ok THEN server ELSE f.data
           st2 == JoinState(src2)
       IN /\ dashFetch' = IF st2 = "open"
                          THEN BagAdd(BagRemove(dashFetch, f), [src |-> src2, data |-> data2])
                          ELSE BagRemove(dashFetch, f)
          /\ lastJoin' = IF st2 = "open" THEN lastJoin ELSE src2
          /\ IF st2 = "applied"
             THEN /\ stats' = ServerStats
                  /\ recentUsers' = Slice(ServerPatients, RecentLimit)
                  /\ recentAppointments' = Slice(data2, RecentLimit)
             ELSE UNCHANGED adminState
          /\ loading' = IF st2 = "open" THEN loading ELSE FALSE
          /\ loadError' = IF st2 = "failed" THEN TRUE ELSE loadError
    /\ UNCHANGED <<session, mounted, server, listState, aptFetch, usrFetch, handlers>>

----------------------------------------------------------------------------
(* PaymentStatusDebug *)

\* the component has no mount effect; its collection is built by useState
MountDebug ==
    /\ view = "debug" /\ ~mounted
    /\ mounted' = TRUE
    /\ UNCHANGED <<session, server, listState, loading, adminState, aptFetch, usrFetch,
                   dashVars, loadError, handlers>>

----------------------------------------------------------------------------
(* The status / payment-status handlers *)

\* the collection the mounted component renders its buttons from
Local == IF view = "admin" THEN recentAppointments ELSE appointments

SetLocal(coll) ==
    /\ appointments' = IF view = "admin" THEN appointments ELSE coll
    /\ recentAppointments' = IF view = "admin" THEN coll ELSE recentAppointments

IndexOf(chain, shape) == CHOOSE i \in 1..Len(chain) : chain[i] = shape

\* every view updating the local collection at the click
LocalAtClickOptimistic(v, coll, id, value) == MapPaymentStatus(coll, id, value)

\* what the handler does to the local collection synchronously, before its
\* first await: only PaymentStatusDebug sets it ("Update local state
\* immediately for better UX")
LocalAtClick(v, coll, id, value) ==
    IF v = "debug" THEN MapPaymentStatus(coll, id, value) ELSE coll

\* the toast shown synchronously at the click
ToastsAtClick(v) == IF v = "debug" THEN <<"success">> ELSE <<>>

\* status buttons rendered for every appointment and every lifecycle value
StatusButtonAnyStatus(coll, id, value) ==
    /\ value \in LifecycleValues
    /\ HasApt(coll, id)

\* {appointment.status === 'scheduled' && <Complete/> <Cancel/>}
StatusButton(coll, id, value) ==
    /\ value \in ClickableStatus
    /\ HasApt(coll, id)
    /\ AptOf(coll, id).status = "scheduled"

\* {appointment.payment_status !== v && <Mark v/>}, disabled={... === v}
PaymentButton(coll, id, value) ==
    /\ value \in PaymentValues
    /\ HasApt(coll, id)
    /\ AptOf(coll, id).payment_status # value

\* onClick={() => updateAppointmentStatus(appointment.id, value)}: the handler
\* runs up to its first await, which issues the PUT
ClickStatus(id, value) ==
    /\ view = "list" /\ mounted /\ ~torn /\ ~loading
    /\ clicks < MaxOps
    /\ StatusButton(appointments, id, value)
    /\ clicks' = clicks + 1
    /\ ops' = BagAdd(ops,
                 [kind |-> "status", id |-> id, value |-> value,
                  captured |-> appointments,
                  log |-> <<Ev("issue", StatusChain[1])>>,
                  toasts |-> <<>>, outcome |-> "none"])
    /\ UNCHANGED <<session, mounted, server, listState, loading, adminState,
                   aptFetch, usrFetch, dashVars, loadError, last>>

\* onClick={() => updatePaymentStatus(appointment.id, value)}: the handler
\* runs up to its first await, which issues the first shape of its chain
ClickPayment(id, value) ==
    /\ mounted /\ ~torn /\ ~loading
    /\ PaymentControls(view, role)
    /\ clicks < MaxOps
    /\ PaymentButton(Local, id, value)
    /\ clicks' = clicks + 1
    /\ SetLocal(LocalAtClick(view, Local, id, value))
    /\ ops' = BagAdd(ops,
                 [kind |-> "payment", id |-> id, value |-> value,
                  captured |-> Local,
                  log |-> <<Ev("issue", Chain(view, "payment")[1])>>,
                  toasts |-> ToastsAtClick(view), outcome |-> "none"])
    /\ UNCHANGED <<session, mounted, server, doctors, patients, loading,
                   stats, recentUsers, aptFetch, usrFetch, dashVars, loadError, last>>

\* a chain that goes on to its next shape after an acceptance
OnAcceptedKeepsTrying(v, op, shape) ==
    LET chain == Chain(v, op.kind)
        i == IndexOf(chain, shape)
    IN IF i < Len(chain)
       THEN [op EXCEPT !.log = Append(Append(@, Ev("ok", shape)), Ev("issue", chain[i + 1]))]
       ELSE [op EXCEPT !.log = Append(@, Ev("ok", shape)),
                       !.toasts = IF v = "debug" THEN @ ELSE Append(@, "success"),
                       !.outcome = "success"]

\* the continuation after an await that fulfilled: toast.success and the
\* refetch (nothing but console.log in the debug tool)
OnAccepted(v, op, shape) ==
    [op EXCEPT !.log = Append(@, Ev("ok", shape)),
               !.toasts = IF v = "debug" THEN @ ELSE Append(@, "success"),
               !.outcome = "success"]

\* a handler whose last catch block throws the rejection on to its caller
OnRejectedRethrows(v, op, shape) ==
    LET chain == Chain(v, op.kind)
        i == IndexOf(chain, shape)
    IN IF i < Len(chain)
       THEN [op EXCEPT !.log = Append(Append(@, Ev("fail", shape)), Ev("issue", chain[i + 1]))]
       ELSE [op EXCEPT !.log = Append(@, Ev("fail", shape)), !.outcome = "thrown"]

\* the continuation after an await that rejected: the next catch block issues
\* the next shape of the chain, the last catch block ends the handler
OnRejected(v, op, shape) ==
    LET chain == Chain(v, op.kind)
        i == IndexOf(chain, shape)
    IN IF i < Len(chain)
       THEN [op EXCEPT !.log = Append(Append(@, Ev("fail", shape)), Ev("issue", chain[i + 1]))]
       ELSE [op EXCEPT
               !.log = Append(@, Ev("fail", shape)),
               !.toasts = IF op.kind = "status" THEN Append(@, "error")
                          ELSE IF v = "list" THEN Append(@, "success (demo mode)")
                          ELSE IF v = "admin" THEN Append(Append(@, "error"), "success (demo mode)")
                          ELSE @,
               !.outcome = IF op.kind = "status" THEN "failed"
                           ELSE IF v = "debug" THEN "unconfirmed"
                           ELSE "simulated"]

\* a handler that refetches however it ends
StartsRefetchAlways(v, outcome) == v \in {"list", "admin"} /\ outcome # "none"

\* which outcomes call fetchAppointments() / fetchDashboardData()
StartsRefetch(v, outcome) == v \in {"list", "admin"} /\ outcome = "success"

\* a last catch block without the mock update
LocalAfterSettleNoMock(v, coll, op) == coll

\* a last catch block that writes the requested value locally for a failed
\* lifecycle change too
LocalAfterSettleKeepsStatus(v, coll, op) ==
    IF op.outcome = "simulated"
    THEN MapPaymentStatus(op.captured, op.id, op.value)
    ELSE IF op.outcome = "failed"
    THEN [i \in 1..Len(coll) |->
            IF coll[i].id = op.id THEN [coll[i] EXCEPT !.status = op.value] ELSE coll[i]]
    ELSE coll

\* the local collection the last catch block leaves: the "mock update" maps
\* the collection the handler closed over
LocalAfterSettle(v, coll, op) ==
    IF op.outcome = "simulated"
    THEN MapPaymentStatus(op.captured, op.id, op.value)
    ELSE coll

\* a handler resumes after an await as op2: it either awaits its next request
\* or returns (and no longer holds the collection it closed over)
Resume(op, op2) ==
    /\ IF op2.outcome = "none"
       THEN /\ ops' = BagAdd(BagRemove(ops, op), op2)
            /\ last' = last
       ELSE /\ ops' = BagRemove(ops, op)
            /\ last' = [op2 EXCEPT !.captured = <<>>]
    /\ SetLocal(LocalAfterSettle(view, Local, op2))
    /\ aptFetch' = IF view = "list" /\ StartsRefetch(view, op2.outcome)
                   THEN BagAdd(aptFetch, SentFetch) ELSE aptFetch
    /\ dashFetch' = IF view = "admin" /\ StartsRefetch(view, op2.outcome)
                    THEN BagAdd(dashFetch, OpenDash) ELSE dashFetch

\* the backend accepts a request in flight and the handler resumes
RequestAccepted(op, shape) ==
    /\ BagCount(ops, op) > 0
    /\ shape \in Pending(op)
    /\ server' = ServerApply(server, shape, op.id, op.value)
    /\ Resume(op, OnAccepted(view, op, shape))
    /\ UNCHANGED <<session, mounted, doctors, patients, loading, stats, recentUsers,
                   usrFetch, lastJoin, loadError, clicks>>

\* a request in flight fails (network, 4xx, 5xx) and the handler resumes
RequestRejected(op, shape) ==
    /\ BagCount(ops, op) > 0
    /\ shape \in Pending(op)
    /\ Resume(op, OnRejected(view, op, shape))
    /\ UNCHANGED <<session, mounted, server, doctors, patients, loading, stats, recentUsers,
                   usrFetch, lastJoin, loadError, clicks>>

NextAdmin ==
    \/ MountAdmin
    \/ \E f \in DOMAIN dashFetch, s \in Sources, ok \in BOOLEAN : DashSourceSettle(f, s, ok)

NextHandlers ==
    \/ \E id \in {"a1", "a2"}, value \in ClickableStatus : ClickStatus(id, value)
    \/ \E id \in {"a1", "a2"}, value \in PaymentValues : ClickPayment(id, value)
    \/ \E op \in DOMAIN ops, shape \in Shapes : RequestAccepted(op, shape)
    \/ \E op \in DOMAIN ops, shape \in Shapes : RequestRejected(op, shape)

NextList ==
    \/ MountList
    \/ FetchAppointmentsServe
    \/ \E f \in DOMAIN aptFetch : FetchAppointmentsDone(f)
    \/ FetchAppointmentsFail
    \/ \E w \in {"doctors", "patients"}, ok \in BOOLEAN : FetchUsersSettle(w, ok)

Next == NextList \/ NextAdmin \/ MountDebug \/ NextHandlers

Spec == Init /\ [][Next]_vars

----------------------------------------------------------------------------
(* Reports *)

\* the <SelectItem> values of the two selects the behaviours choose among
TimeRanges == {"week", "month"}
ReportTypes == {"overview", "appointments"}

\* what the steps of Reports and the unmount leave alone
others == <<view, role, server, listState, adminState, aptFetch, usrFetch, dashVars,
            loadError, handlers, filterState, now, screen, appState>>

\* fetchReportData up to its await: setIsRefreshing(true) and the GET /reports
\* with the parameters of the render whose closure makes the call
FetchReportData(tr, rt, origin) ==
    /\ isRefreshing' = TRUE
    /\ repFetch' = BagAdd(repFetch, [time_range |-> tr, report_type |-> rt, origin |-> origin])

\* a real-time effect that leaves the interval of the effect before it running
RealTimeCleanupNone(n, h) == n

\* return () => clearInterval(interval): clears the timer this effect set
RealTimeCleanup(n, h) == IF h.set THEN n - 1 ELSE n

\* the body of the real-time effect: if (realTimeMode) interval = setInterval(...)
RealTimeEffect(mode, tr, rt) ==
    /\ intervals' = RealTimeCleanup(intervals, interval) + (IF mode THEN 1 ELSE 0)
    /\ interval' = IF mode THEN [set |-> TRUE, time_range |-> tr, report_type |-> rt]
                   ELSE NoInterval

\* mount: both effects run; realTimeMode is false, so no interval is set
MountReports ==
    /\ view = "reports" /\ ~mounted
    /\ mounted' = TRUE
    /\ FetchReportData(selectedTimeRange, reportType, "effect")
    /\ RealTimeEffect(realTimeMode, selectedTimeRange, reportType)
    /\ UNCHANGED <<others, torn, loading, reportData, selectedTimeRange, reportType, realTimeMode>>

\* the controls are rendered once the spinner is gone
ReportControls == view = "reports" /\ mounted /\ ~torn /\ ~loading

\* <Select value={selectedTimeRange} onValueChange={setSelectedTimeRange}>: the
\* fetch effect and the real-time effect both depend on it and run again
SetSelectedTimeRange(tr) ==
    /\ ReportControls
    /\ tr # selectedTimeRange
    /\ BagSize(repFetch) < MaxInFlight
    /\ selectedTimeRange' = tr
    /\ FetchReportData(tr, reportType, "effect")
    /\ RealTimeEffect(realTimeMode, tr, reportType)
    /\ UNCHANGED <<others, mounted, torn, loading, reportData, reportType, realTimeMode>>

\* <Select value={reportType} onValueChange={setReportType}>
SetReportType(rt) ==
    /\ ReportControls
    /\ rt # reportType
    /\ BagSize(repFetch) < MaxInFlight
    /\ reportType' = rt
    /\ FetchReportData(selectedTimeRange, rt, "effect")
    /\ RealTimeEffect(realTimeMode, selectedTimeRange, rt)
    /\ UNCHANGED <<others, mounted, torn, loading, reportData, selectedTimeRange, realTimeMode>>

\* toggleRealTimeMode: setRealTimeMode(!realTimeMode); the real-time effect
\* depends on it and runs again
ToggleRealTimeMode ==
    /\ ReportControls
    /\ realTimeMode' = ~realTimeMode
    /\ RealTimeEffect(~realTimeMode, selectedTimeRange, reportType)
    /\ UNCHANGED <<others, mounted, torn, loading, reportData, selectedTimeRange, reportType,
                   isRefreshing, repFetch>>

\* handleRefresh, from the button that is disabled while isRefreshing
HandleRefresh ==
    /\ ReportControls
    /\ ~isRefreshing
    /\ BagSize(repFetch) < MaxInFlight
    /\ FetchReportData(selectedTimeRange, reportType, "manual")
    /\ UNCHANGED <<others, mounted, torn, loading, reportData, selectedTimeRange, reportType,
                   realTimeMode, intervals, interval>>

\* a timer that has not been cleared fires: its callback calls the
\* fetchReportData of the render that set it
Tick ==
    /\ intervals > 0
    /\ BagSize(repFetch) < MaxInFlight
    /\ FetchReportData(interval.time_range, interval.report_type, "tick")
    /\ UNCHANGED <<others, mounted, torn, loading, reportData, selectedTimeRange, reportType,
                   realTimeMode, intervals, interval>>

\* fetchReportData after its await: the response (try) or generateDynamicData()
\* (catch), then finally
ReportSettle(f, ok) ==
    /\ BagCount(repFetch, f) > 0
    /\ repFetch' = BagRemove(repFetch, f)
    /\ reportData' = [from |-> IF ok THEN "server" ELSE "generated",
                      time_range |-> f.time_range, report_type |-> f.report_type]
    /\ loading' = FALSE
    /\ isRefreshing' = FALSE
    /\ UNCHANGED <<others, mounted, torn, selectedTimeRange, reportType, realTimeMode,
                   intervals, interval>>

\* the router renders another route: React runs the cleanup of every effect
\* of the component; no component has any other teardown code
Unmount ==
    /\ mounted /\ ~torn
    /\ torn' = TRUE
    /\ intervals' = RealTimeCleanup(intervals, interval)
    /\ interval' = NoInterval
    /\ UNCHANGED <<others, mounted, loading, reportData, selectedTimeRange, reportType,
                   isRefreshing, realTimeMode, repFetch>>

NextReports ==
    \/ MountReports
    \/ \E tr \in TimeRanges : SetSelectedTimeRange(tr)
    \/ \E rt \in ReportTypes : SetReportType(rt)
    \/ ToggleRealTimeMode
    \/ HandleRefresh
    \/ Tick
    \/ \E f \in DOMAIN repFetch, ok \in BOOLEAN : ReportSettle(f, ok)

InitReports == Constructed({"reports"})

\* the Reports view from its construction to its unmount and after
SpecReports == InitReports /\ [][NextReports \/ Unmount]_vars

\* every view, with the navigation away from it
InitTeardown == Constructed(Views \cup {"reports"})

SpecTeardown == InitTeardown /\ [][Next \/ NextReports \/ Unmount]_vars

----------------------------------------------------------------------------
(* The view-model of AppointmentsList and the badges of AdminDashboard *)

\* text is a sequence of characters; LowerOf is String.prototype.toLowerCase
\* on the letters
LowerOf ==
    ("A" :> "a") @@ ("B" :> "b") @@ ("C" :> "c") @@ ("D" :> "d") @@ ("E" :>
    "e") @@ ("F" :> "f") @@ ("G" :> "g") @@ ("H" :> "h") @@ ("I" :> "i") @@
    ("J" :> "j") @@ ("K" :> "k") @@ ("L" :> "l") @@ ("M" :> "m") @@ ("N" :>
    "n") @@ ("O" :> "o") @@ ("P" :> "p") @@ ("Q" :> "q") @@ ("R" :> "r") @@
    ("S" :> "s") @@ ("T" :> "t") @@ ("U" :> "u") @@ ("V" :> "v") @@ ("W" :>
    "w") @@ ("X" :> "x") @@ ("Y" :> "y") @@ ("Z" :> "z")

LowerChar(c) == IF c \in DOMAIN LowerOf THEN LowerOf[c] ELSE c
UpperChar(c) ==
    IF \E u \in DOMAIN LowerOf : LowerOf[u] = c
    THEN CHOOSE u \in DOMAIN LowerOf : LowerOf[u] = c
    ELSE c

\* a search that compares the text as typed
ToLowerCaseNone(s) == s

\* s.toLowerCase()
ToLowerCase(s) == [i \in 1..Len(s) |-> LowerChar(s[i])]

\* s.includes(t)
Includes(s, t) == \E i \in 0..(Len(s) - Len(t)) : SubSeq(s, i + 1, i + Len(t)) = t

\* s.charAt(0).toUpperCase() + s.slice(1)
Capitalize(s) == IF s = <<>> THEN <<>> ELSE <<UpperChar(s[1])>> \o Tail(s)

\* the characters of the status and payment-status values the backend may send
Spell ==
    ("scheduled" :> <<"s", "c", "h", "e", "d", "u", "l", "e", "d">>) @@
    ("completed" :> <<"c", "o", "m", "p", "l", "e", "t", "e", "d">>) @@
    ("cancelled" :> <<"c", "a", "n", "c", "e", "l", "l", "e", "d">>) @@
    ("pending" :> <<"p", "e", "n", "d", "i", "n", "g">>) @@
    ("paid" :> <<"p", "a", "i", "d">>) @@
    ("overdue" :> <<"o", "v", "e", "r", "d", "u", "e">>) @@
    ("no-show" :> <<"n", "o", "-", "s", "h", "o", "w">>) @@
    ("refunded" :> <<"r", "e", "f", "u", "n", "d", "e", "d">>) @@
    ("" :> <<>>)

\* the characters of the ids and of the two user types
SpellId ==
    ("d1" :> <<"d", "1">>) @@
    ("d9" :> <<"d", "9">>) @@
    ("p1" :> <<"p", "1">>) @@
    ("p9" :> <<"p", "9">>) @@
    ("doctor" :> <<"d", "o", "c", "t", "o", "r">>) @@
    ("patient" :> <<"p", "a", "t", "i", "e", "n", "t">>)

\* a field the record does not carry
Absent == "(absent)"

\* the names the backend holds for the users of ServerDoctors / ServerPatients
FullName(userId) == IF userId = "d1" THEN <<"A", "n", "n">> ELSE <<"B", "o">>

\* getUserName: the full_name of the user found in the list, else `${type} ID: ${userId}`
GetUserName(userId, type) ==
    LET userList == IF type = "doctor" THEN doctors ELSE patients
    IN IF \E i \in 1..Len(userList) : userList[i] = userId
       THEN FullName(userId)
       ELSE SpellId[type] \o <<" ", "I", "D", ":", " ">> \o SpellId[userId]

\* appointment.notes, a text or not there
NoNotes == [has |-> FALSE]
Notes(text) == [has |-> TRUE, text |-> text]

\* matchesSearch; `appointment.notes?.` gives undefined (falsy) without notes
MatchesSearch(a, term) ==
    \/ Includes(ToLowerCase(GetUserName(a.doctor_id, "doctor")), ToLowerCase(term))
    \/ Includes(ToLowerCase(GetUserName(a.patient_id, "patient")), ToLowerCase(term))
    \/ (a.notes.has /\ Includes(ToLowerCase(a.notes.text), ToLowerCase(term)))

\* a status rule that lets every record pass
MatchesStatusAny(a, filter) == TRUE

\* matchesStatus
MatchesStatus(a, filter) == filter = "all" \/ a.status = filter

\* clock and calendar: local time in seconds since 1 January 00:00:00 of a
\* year of 365 days
DaySeconds == 86400
WeekDays == 7
Date(day, seconds) == day * DaySeconds + seconds
\* new Date(x) of something that is no date; every comparison with it is false
InvalidDate == -1
IsValidDate(t) == t >= 0
\* the days of the year before each month begins
MonthStart == <<0, 31, 59, 90, 120, 151, 181, 212, 243, 273, 304, 334, 365>>
MonthOf(day) == CHOOSE m \in 1..12 : MonthStart[m] <= day /\ day < MonthStart[m + 1]

\* today.setHours(0, 0, 0, 0)
StartOfDay(t) == (t \div DaySeconds) * DaySeconds
\* d.toDateString(): the calendar day; "Invalid Date" for an invalid date
ToDateString(t) == IF IsValidDate(t) THEN t \div DaySeconds ELSE InvalidDate
\* d.setDate(d.getDate() + n)
AddDays(t, n) == t + n * DaySeconds
\* d.setMonth(d.getMonth() + 1): the same day of the month in the next month,
\* running over into the month after when that month is too short
AddMonth(t) ==
    LET day == t \div DaySeconds
        m == MonthOf(day)
    IN Date(MonthStart[m + 1] + (day - MonthStart[m]), t % DaySeconds)

\* a 'today' rule that takes the 24 hours that end now
DateTodayLast24h(appointmentDate, today, clock) ==
    IsValidDate(appointmentDate) /\ clock - DaySeconds < appointmentDate /\ appointmentDate <= clock

\* case 'today'
DateToday(appointmentDate, today, clock) == ToDateString(appointmentDate) = ToDateString(today)

\* case 'week'
DateWeek(appointmentDate, today) ==
    LET weekFromNow == AddDays(today, WeekDays)
    IN IsValidDate(appointmentDate) /\ appointmentDate >= today /\ appointmentDate <= weekFromNow

\* case 'month'
DateMonth(appointmentDate, today) ==
    LET monthFromNow == AddMonth(today)
    IN IsValidDate(appointmentDate) /\ appointmentDate >= today /\ appointmentDate <= monthFromNow

\* a 'past' rule that takes the first instant of today too
DatePastInclusive(appointmentDate, today) == IsValidDate(appointmentDate) /\ appointmentDate <= today

\* case 'past'
DatePast(appointmentDate, today) == IsValidDate(appointmentDate) /\ appointmentDate < today

\* matchesDate
MatchesDate(a, filter, clock) ==
    LET appointmentDate == a.appointment_date
        today == StartOfDay(clock)
    IN CASE filter = "all" -> TRUE
         [] filter = "today" -> DateToday(appointmentDate, today, clock)
         [] filter = "week" -> DateWeek(appointmentDate, today)
         [] filter = "month" -> DateMonth(appointmentDate, today)
         [] filter = "past" -> DatePast(appointmentDate, today)

\* a filter that lists the newest entry of the collection first
GetFilteredReversed(coll, term, sFilter, dFilter, clock) ==
    LET Passes(a) == MatchesSearch(a, term) /\ MatchesStatus(a, sFilter)
                        /\ MatchesDate(a, dFilter, clock)
        kept == SelectSeq(coll, Passes)
    IN [i \in 1..Len(kept) |-> kept[Len(kept) + 1 - i]]

\* getFilteredAppointments
GetFilteredAppointments(coll, term, sFilter, dFilter, clock) ==
    LET Passes(a) == MatchesSearch(a, term) /\ MatchesStatus(a, sFilter)
                        /\ MatchesDate(a, dFilter, clock)
    IN SelectSeq(coll, Passes)

\* what `x?.charAt(0).toUpperCase() + x?.slice(1)` renders as: NaN for undefined
NaNText == <<"N", "a", "N">>
Capitalized(value) == IF value = Absent THEN NaNText ELSE Capitalize(Spell[value])
\* NaN and '' are falsy
OrElse(value, text) == IF value = Absent \/ Spell[value] = <<>> THEN text ELSE Capitalized(value)

\* getStatusBadge: the colour and icon fall back to those of 'pending', the text does not
StatusBadge(status) ==
    [style |-> IF status \in {"scheduled", "completed", "cancelled", "pending"}
               THEN status ELSE "pending",
     text |-> Capitalized(status)]

\* getPaymentBadge
PaymentBadge(paymentStatus) ==
    [style |-> IF paymentStatus \in PaymentValues THEN paymentStatus ELSE "gray",
     text |-> OrElse(paymentStatus, <<"P", "e", "n", "d", "i", "n", "g">>)]

\* AdminDashboard.getStatusBadge: the raw status, nothing for undefined
AdminStatusBadge(status) ==
    [style |-> IF status \in LifecycleValues THEN status ELSE "scheduled",
     text |-> IF status = Absent THEN <<>> ELSE Spell[status]]

\* AdminDashboard.getPaymentStatusBadge
AdminPaymentBadge(paymentStatus) ==
    [style |-> IF paymentStatus \in PaymentValues THEN paymentStatus ELSE "gray",
     text |-> OrElse(paymentStatus, <<"U", "n", "k", "n", "o", "w", "n">>)]

\* filteredAppointments.filter(a => a.payment_status === 'pending').length
PendingPaymentTally(coll) == Cardinality({i \in 1..Len(coll) : coll[i].payment_status = "pending"})

\* summary cards that count the whole collection
StatusTallyAll(filteredAppointments, coll, status) ==
    Cardinality({i \in 1..Len(coll) : coll[i].status = status})

\* filteredAppointments.filter(a => a.status === status).length
StatusTally(filteredAppointments, coll, status) ==
    Cardinality({i \in 1..Len(filteredAppointments) : filteredAppointments[i].status = status})

\* the render of AppointmentsList: the visible rows, their badges, and the
\* summary, which is rendered when a row is visible
RenderList(coll, term, sFilter, dFilter, clock) ==
    LET filteredAppointments == GetFilteredAppointments(coll, term, sFilter, dFilter, clock)
    IN [shown |-> TRUE,
        filteredAppointments |-> filteredAppointments,
        badges |-> [i \in 1..Len(filteredAppointments) |->
                      [status |-> StatusBadge(filteredAppointments[i].status),
                       payment |-> PaymentBadge(filteredAppointments[i].payment_status)]],
        tally |-> [status \in LifecycleValues |->
                     IF Len(filteredAppointments) > 0
                     THEN StatusTally(filteredAppointments, coll, status) ELSE -1],
        pendingPayment |-> IF Len(filteredAppointments) > 0
                           THEN PendingPaymentTally(filteredAppointments) ELSE -1]

\* the "Recent Appointments" card of AdminDashboard
RenderAdmin(coll) ==
    [shown |-> TRUE,
     filteredAppointments |-> coll,
     badges |-> [i \in 1..Len(coll) |->
                   [status |-> AdminStatusBadge(coll[i].status),
                    payment |-> AdminPaymentBadge(coll[i].payment_status)]],
     tally |-> [status \in LifecycleValues |-> -1],
     pendingPayment |-> -1]

\* what the view-model steps leave alone
loaded == <<view, mounted, torn, role, server, listState, loading, adminState, aptFetch,
            usrFetch, dashVars, loadError, handlers, reportState, now, appState>>

\* the first render after the spinner
RenderView ==
    /\ view \in {"list", "admin"} /\ mounted /\ ~torn /\ ~loading
    /\ ~screen.shown
    /\ screen' = IF view = "admin" THEN RenderAdmin(recentAppointments)
                 ELSE RenderList(appointments, searchTerm, statusFilter, dateFilter, now)
    /\ UNCHANGED <<loaded, filterState>>

ListControls == view = "list" /\ mounted /\ ~torn /\ ~loading /\ screen.shown

\* onChange={(e) => setSearchTerm(e.target.value)} and the render it causes
SetSearchTerm(term) ==
    /\ ListControls
    /\ term # searchTerm
    /\ searchTerm' = term
    /\ screen' = RenderList(appointments, term, statusFilter, dateFilter, now)
    /\ UNCHANGED <<loaded, statusFilter, dateFilter>>

\* onValueChange={setStatusFilter}
SetStatusFilter(filter) ==
    /\ ListControls
    /\ filter # statusFilter
    /\ statusFilter' = filter
    /\ screen' = RenderList(appointments, searchTerm, filter, dateFilter, now)
    /\ UNCHANGED <<loaded, searchTerm, dateFilter>>

\* onValueChange={setDateFilter}
SetDateFilter(filter) ==
    /\ ListControls
    /\ filter # dateFilter
    /\ dateFilter' = filter
    /\ screen' = RenderList(appointments, searchTerm, statusFilter, filter, now)
    /\ UNCHANGED <<loaded, searchTerm, statusFilter>>

\* the inputs of the view-model
SearchTerms == {<<>>, <<"a", "n", "n">>, <<"A", "N">>, <<"i", "d", ":">>, <<"f", "l", "u">>,
                <<"z", "z">>}
StatusFilters == {"all"} \cup LifecycleValues
DateFilters == {"all", "today", "week", "month", "past"}

VmApt(status, paymentStatus, doctorId, notes, appointmentDate) ==
    [id |-> "a1", status |-> status, payment_status |-> paymentStatus,
     doctor_id |-> doctorId, patient_id |-> "p1", notes |-> notes,
     appointment_date |-> appointmentDate]

\* the clock at the render: 10 February 00:00:00 and 15:30:00, 31 January 23:59:59
VmNows == {Date(40, 0), Date(40, 55800), Date(30, 86399)}

\* timestamps around the borders of the date rules for a clock
VmDates(clock) ==
    LET day == clock \div DaySeconds
        monthDay == AddMonth(StartOfDay(clock)) \div DaySeconds
    IN {Date(d, s) : d \in {day - 1, day, day + 1, day + 6, day + 7, day + 8,
                            monthDay, monthDay + 1},
                     s \in {0, 43200, 86399}}
       \cup {InvalidDate}

VmNotes == {NoNotes, Notes(<<"F", "l", "u">>)}
VmStatus == LifecycleValues \cup {"pending", "no-show", Absent}
VmPayment == PaymentValues \cup {"refunded", "", Absent}

\* ten appointments: 4 scheduled, 3 completed, 3 cancelled, in the order the
\* backend returns them
TenStatus == <<"scheduled", "completed", "cancelled", "scheduled", "completed",
               "cancelled", "scheduled", "completed", "cancelled", "scheduled">>
TenIds == <<"b1", "b2", "b3", "b4", "b5", "b6", "b7", "b8", "b9", "b10">>
TenAppointments ==
    [i \in 1..10 |->
        [VmApt(TenStatus[i], IF i % 2 = 0 THEN "paid" ELSE "pending", "d1",
               IF i % 3 = 0 THEN Notes(<<"F", "l", "u">>) ELSE NoNotes,
               Date(39 + (i % 4), 43200))
         EXCEPT !.id = TenIds[i]]]

\* a collection, a clock and a role: one record whose date varies, or whose
\* names and notes vary, or whose status fields vary; or the ten appointments
VmInputs ==
    {[coll |-> TenAppointments, now |-> Date(40, 55800), role |-> "patient"]}
    \cup
    {[coll |-> <<VmApt("scheduled", "pending", "d1", NoNotes, t)>>, now |-> n, role |-> "patient"] :
        <<n, t>> \in {p \in VmNows \X UNION {VmDates(c) : c \in VmNows} : p[2] \in VmDates(p[1])}}
    \cup
    {[coll |-> <<VmApt("scheduled", "pending", d, nt, Date(40, 43200))>>, now |-> Date(40, 55800),
      role |-> r] : d \in {"d1", "d9"}, nt \in VmNotes, r \in {"patient", "admin"}}
    \cup
    {[coll |-> <<VmApt(s, p, "d1", NoNotes, Date(40, 43200))>>, now |-> Date(40, 55800),
      role |-> r] : s \in VmStatus, p \in VmPayment, r \in {"patient", "admin"}}

\* a list or an admin dashboard whose mount fetches have all succeeded
InitViewModel ==
    /\ view \in {"list", "admin"}
    /\ \E in \in VmInputs :
          /\ server = in.coll
          /\ now = in.now
          /\ role = in.role
    /\ view = "admin" => role = "admin"
    /\ mounted = TRUE
    /\ torn = FALSE
    /\ loading = FALSE
    /\ loadError = FALSE
    /\ appointments = IF view = "list" THEN server ELSE <<>>
    /\ doctors = IF view = "list" /\ role = "admin" THEN ServerDoctors ELSE <<>>
    /\ patients = IF view = "list" /\ role = "admin" THEN ServerPatients ELSE <<>>
    /\ usrFetch = [w \in {"doctors", "patients"} |->
                     IF view = "list" /\ role = "admin" THEN "done" ELSE "none"]
    /\ aptFetch = EmptyBag
    /\ stats = IF view = "admin" THEN ServerStats ELSE EmptyStats
    /\ recentUsers = IF view = "admin" THEN Slice(ServerPatients, RecentLimit) ELSE <<>>
    /\ recentAppointments = IF view = "admin" THEN Slice(server, RecentLimit) ELSE <<>>
    /\ dashFetch = EmptyBag
    /\ lastJoin = IF view = "admin" THEN [s \in Sources |-> "ok"] ELSE NoJoin
    /\ ops = EmptyBag
    /\ last = NoOp
    /\ clicks = 0
    /\ reportData = NoReport
    /\ selectedTimeRange = "month"
    /\ reportType = "overview"
    /\ isRefreshing = FALSE
    /\ realTimeMode = FALSE
    /\ intervals = 0
    /\ interval = NoInterval
    /\ repFetch = EmptyBag
    /\ searchTerm = <<>>
    /\ statusFilter = "all"
    /\ dateFilter = "all"
    /\ screen = Blank
    /\ SignedIn

NextViewModel ==
    \/ RenderView
    \/ \E term \in SearchTerms : SetSearchTerm(term)
    \/ \E filter \in StatusFilters : SetStatusFilter(filter)
    \/ \E filter \in DateFilters : SetDateFilter(filter)

SpecViewModel == InitViewModel /\ [][NextViewModel]_vars

----------------------------------------------------------------------------
(* AuthProvider and the router *)

\* what the steps of AuthProvider and the router leave alone
components == <<view, mounted, torn, role, server, listState, loading, adminState, aptFetch,
                usrFetch, dashVars, loadError, handlers, reportState, filterState, now, screen>>

\* the children of the ProtectedRoute elements
ProtectedComponents == {r[3] : r \in ProtectedRoutes}

\* the mount effect of AuthProvider: with a token in localStorage it sets the
\* header and sends GET /auth/me, else it ends the loading state
AuthMount ==
    /\ meFetch = "unmounted"
    /\ IF token # NoToken
       THEN /\ header' = token
            /\ meFetch' = "sent"
            /\ authLoading' = authLoading
       ELSE /\ header' = header
            /\ meFetch' = "skipped"
            /\ authLoading' = FALSE
    /\ page' = Element(path, user, authLoading')
    /\ UNCHANGED <<components, user, token, loginFetch, loggedOut, path>>

\* .then(response => setUser(response.data)) and .finally(() => setLoading(false))
MeSucceeds ==
    /\ meFetch = "sent"
    /\ meFetch' = "ok"
    /\ user' = User(role)
    /\ authLoading' = FALSE
    /\ page' = Element(path, user', authLoading')
    /\ UNCHANGED <<components, token, header, loginFetch, loggedOut, path>>

\* .catch(() => { removeItem('token'); delete the header }) and .finally
MeFails ==
    /\ meFetch = "sent"
    /\ meFetch' = "failed"
    /\ token' = NoToken
    /\ header' = NoToken
    /\ authLoading' = FALSE
    /\ page' = Element(path, user, authLoading')
    /\ UNCHANGED <<components, user, loginFetch, loggedOut, path>>

\* the Login page calls login(email, password): POST /auth/login is sent
Login ==
    /\ meFetch # "unmounted"
    /\ page = Page("Login")
    /\ loginFetch < MaxLogins
    /\ loginFetch' = loginFetch + 1
    /\ UNCHANGED <<components, user, authLoading, token, header, meFetch, loggedOut, path, page>>

\* login after its await: the token is stored, the header set, the user set
LoginSucceeds ==
    /\ loginFetch > 0
    /\ loginFetch' = loginFetch - 1
    /\ token' = "t1"
    /\ header' = "t1"
    /\ user' = User(role)
    /\ loggedOut' = FALSE
    /\ page' = Element(path, user', authLoading)
    /\ UNCHANGED <<components, authLoading, meFetch, path>>

\* login: the catch branch returns { success: false, error }
LoginFails ==
    /\ loginFetch > 0
    /\ loginFetch' = loginFetch - 1
    /\ UNCHANGED <<components, user, authLoading, token, header, meFetch, loggedOut, path, page>>

\* logout, from the button of a page inside a ProtectedRoute
Logout ==
    /\ page.kind = "page" /\ page.name \in ProtectedComponents
    /\ token' = NoToken
    /\ header' = NoToken
    /\ user' = NoUser
    /\ loggedOut' = TRUE
    /\ page' = Element(path, user', authLoading)
    /\ UNCHANGED <<components, authLoading, meFetch, loginFetch, path>>

\* the user opens another path (a link, the address bar within the session)
Goto(p) ==
    /\ meFetch # "unmounted"
    /\ p # path
    /\ path' = p
    /\ page' = Element(p, user, authLoading)
    /\ UNCHANGED <<components, user, authLoading, token, header, meFetch, loginFetch, loggedOut>>

\* <Navigate to=... replace /> has rendered: the router goes there
Follow ==
    /\ page.kind = "navigate"
    /\ path' = page.name
    /\ page' = Element(page.name, user, authLoading)
    /\ UNCHANGED <<components, user, authLoading, token, header, meFetch, loginFetch, loggedOut>>

\* the application is opened at some path, with or without a stored token;
\* AuthProvider and the routes have rendered once, no effect has run
InitApp ==
    /\ view = "none"
    /\ role \in AnyRoles
    /\ Fresh
    /\ user = NoUser
    /\ authLoading = TRUE
    /\ token \in {NoToken, "t0"}
    /\ header = NoToken
    /\ meFetch = "unmounted"
    /\ loginFetch = 0
    /\ loggedOut = FALSE
    /\ path \in Paths
    /\ page = Element(path, user, authLoading)

NextApp ==
    \/ AuthMount
    \/ MeSucceeds
    \/ MeFails
    \/ Login
    \/ LoginSucceeds
    \/ LoginFails
    \/ Logout
    \/ \E p \in Paths : Goto(p)
    \/ Follow

SpecApp == InitApp /\ [][NextApp]_vars

\* the router follows a redirect it has rendered, and the backend answers
\* GET /auth/me
SpecAppFair == SpecApp /\ WF_vars(Follow) /\ WF_vars(MeSucceeds \/ MeFails)

----------------------------------------------------------------------------
(* Vocabulary of the properties *)

Range(q) == {q[i] : i \in 1..Len(q)}
LastOf(q) == q[Len(q)]

\* the local collection after a step
LocalNext == IF view = "admin" THEN recentAppointments' ELSE appointments'

\* a step in which the handler invocation op returns
Returns(op) == BagCount(ops, op) > 0 /\ ops' = BagRemove(ops, op)

\* a step in which a handler is invoked, as the invocation op2
Invokes(op2) == clicks' = clicks + 1 /\ BagCount(ops', op2) > 0 /\ ops' = BagAdd(ops, op2)

\* a step in which a running handler goes from one await to the next
Advances == clicks' = clicks /\ ops' # ops /\ BagSize(ops') = BagSize(ops)

\* a step that calls fetchAppointments() / fetchDashboardData()
RefetchStarts ==
    \/ view = "list" /\ BagCount(aptFetch', SentFetch) = BagCount(aptFetch, SentFetch) + 1
    \/ view = "admin" /\ BagCount(dashFetch', OpenDash) = BagCount(dashFetch, OpenDash) + 1

ChainViews == {"list", "admin"}

----------------------------------------------------------------------------
(* C1 *)

\* C1: a payment-status change that ends with the backend accepting
\* PATCH /appointments/{id} {payment_status}, after every earlier request of
\* the change was rejected, has issued exactly PATCH .../payment-status (query
\* param), PUT /appointments/{id} (body), PATCH /appointments/{id} (body), in
\* this order, in the appointment list and in the admin dashboard.
C1_ThreeShapesInOrder ==
    (/\ view \in ChainViews
     /\ last.kind = "payment"
     /\ last.outcome = "success"
     /\ LastOf(last.log) = Ev("ok", PatchBody))
    => Issued(last.log) = <<PatchParam, PutBody, PatchBody>>

----------------------------------------------------------------------------
(* C2 *)

\* the events of one invocation are strictly sequential: a request is issued
\* first of all or right after the rejection of the request issued before it,
\* and nothing follows an acceptance
SequentialLog(log) ==
    /\ Len(log) > 0 => log[1].ev = "issue"
    /\ \A i \in 2..Len(log) :
          /\ log[i].ev = "issue" => log[i - 1].ev = "fail"
          /\ log[i].ev \in {"ok", "fail"} =>
                log[i - 1].ev = "issue" /\ log[i - 1].shape = log[i].shape
          /\ log[i - 1].ev # "ok"

\* C2: in every payment-status chain at most one request is in flight, step
\* k+1 is issued only after step k was rejected, and after an accepted step no
\* further request of the chain is issued.
C2_SequentialChain ==
    \A op \in DOMAIN ops \cup {last} :
        op.kind = "payment" =>
            /\ Cardinality(Pending(op)) <= 1
            /\ SequentialLog(op.log)
            /\ ("ok" \in {op.log[i].ev : i \in 1..Len(op.log)} => op.outcome = "success")
            /\ (op \in DOMAIN ops => Cardinality(Pending(op)) = 1 /\ op.outcome = "none")

C2_Witness ==
    /\ view = "admin"
    /\ last.kind = "payment"
    /\ last.outcome = "success"
    /\ Issued(last.log) = <<PatchParam, PutBody>>
    /\ \E op \in DOMAIN ops : op.kind = "payment" /\ Len(op.log) = 5

----------------------------------------------------------------------------
(* C3 *)

\* C3: a payment-status change whose every remote attempt failed ends as a
\* simulated success and shows no error toast, in the appointment list and in
\* the admin dashboard.
C3_NoErrorToastWhenSimulated ==
    (view \in ChainViews /\ last.kind = "payment" /\ last.outcome = "simulated")
    => "error" \notin Range(last.toasts)

----------------------------------------------------------------------------
(* C4 *)

\* C4: when a payment-status change for appointment id with value v has every
\* request shape rejected, the step that ends the handler leaves the local
\* collection with id's payment_status = v and the last toast it shows is the
\* one labelled "(demo mode)".
C4_SimulatedIsAppliedAndLabelled ==
    [][\A op \in DOMAIN ops :
         (view \in ChainViews /\ op.kind = "payment" /\ Returns(op)
            /\ "ok" \notin {op.log[i].ev : i \in 1..Len(op.log)}
            /\ last'.outcome # "success")
         => /\ last'.outcome = "simulated"
            /\ HasApt(LocalNext, op.id)
            /\ AptOf(LocalNext, op.id).payment_status = op.value
            /\ LastOf(last'.toasts) = "success (demo mode)"]_vars

C4_Witness ==
    /\ view = "list"
    /\ last.kind = "payment" /\ last.outcome = "simulated"
    /\ last.id = "a1" /\ last.value = "paid"
    /\ AptOf(appointments, "a1").payment_status = "paid"
    /\ AptOf(server, "a1").payment_status = "pending"
    /\ Len(Issued(last.log)) = Len(ListPaymentChain)

----------------------------------------------------------------------------
(* C5 *)

\* C5: when the request of a lifecycle-status change fails, the handler shows
\* the failure toast, and neither its invocation nor its return changes the
\* local collection or starts a refetch.
C5_StatusFailureLeavesLocal ==
    [][/\ \A op \in DOMAIN ops :
            (op.kind = "status" /\ Returns(op) /\ last'.outcome # "success")
            => /\ last'.outcome = "failed"
               /\ last'.toasts = <<"error">>
               /\ appointments' = appointments
               /\ aptFetch' = aptFetch
       /\ \A op2 \in DOMAIN ops' :
            (op2.kind = "status" /\ Invokes(op2))
            => appointments' = appointments /\ aptFetch' = aptFetch]_vars

C5_Witness ==
    /\ view = "list"
    /\ last.kind = "status" /\ last.outcome = "failed"
    /\ last.value = "completed"
    /\ AptOf(appointments, last.id).status = "scheduled"
    /\ aptFetch = EmptyBag

----------------------------------------------------------------------------
(* C6 *)

\* new is old with the payment_status of the appointment id replaced by
\* value, and nothing else touched
ReplacedById(old, new, id, value) ==
    /\ Len(new) = Len(old)
    /\ \A i \in 1..Len(old) :
          IF old[i].id = id
          THEN new[i] = [id |-> old[i].id, status |-> old[i].status, payment_status |-> value]
          ELSE new[i] = old[i]

\* C6: a local payment-status update (the mock update of the appointment list
\* and of the admin dashboard, the immediate update of the debug tool) yields
\* a collection of the same length and order in which only the payment_status
\* of the appointment with the given id is replaced; with an id that no
\* appointment has the content is unchanged; the collection it was computed
\* from keeps its value.
C6_LocalUpdateFrame ==
    /\ [](\A value \in PaymentValues :
             MapPaymentStatus(Local, "no-such-id", value) = Local)
    /\ [][/\ \A op \in DOMAIN ops :
               (view \in ChainViews /\ Returns(op) /\ last'.outcome = "simulated")
               => ReplacedById(op.captured, LocalNext, op.id, op.value)
          /\ \A op2 \in DOMAIN ops' :
               (view = "debug" /\ Invokes(op2))
               => /\ ReplacedById(appointments, appointments', op2.id, op2.value)
                  /\ op2.captured = appointments]_vars

C6_Witness ==
    /\ view = "admin"
    /\ last.outcome = "simulated" /\ last.id = "a2" /\ last.value = "overdue"
    /\ Len(recentAppointments) = 2
    /\ recentAppointments[2] = Apt("a2", "completed", "overdue")
    /\ recentAppointments[1] = server[1]
    /\ server[2].payment_status = "paid"

----------------------------------------------------------------------------
(* C7 *)

----------------------------------------------------------------------------
(* C8 *)

\* C8 as stated: every return of a status or payment-status handler of the
\* appointment list or admin dashboard (success, simulated, failed) starts a
\* refetch.
C8_RefetchAfterEverySettle ==
    [][\A op \in DOMAIN ops :
         (view \in ChainViews /\ Returns(op)) => RefetchStarts]_vars

\* C8 amended: a handler of the appointment list or admin dashboard starts a
\* refetch when it returns exactly if one of its requests was accepted; a
\* simulated payment update and a failed lifecycle change start none.
C8_RefetchOnlyAfterSuccess ==
    [][\A op \in DOMAIN ops :
         (view \in ChainViews /\ Returns(op))
         => /\ RefetchStarts <=> last'.outcome = "success"
            /\ last'.outcome # "success" =>
                  aptFetch' = aptFetch /\ dashFetch' = dashFetch]_vars

C8_Witness ==
    /\ view = "admin"
    /\ last.kind = "payment" /\ last.outcome = "simulated"
    /\ dashFetch = EmptyBag
    /\ AptOf(recentAppointments, last.id).payment_status = last.value
    /\ AptOf(server, last.id).payment_status # last.value
    /\ clicks = 1

----------------------------------------------------------------------------
(* C9 *)

\* C9: the response of GET /appointments carries the backend's list, and when
\* fetchAppointments applies a response the local collection becomes exactly
\* that list, whatever local value (a simulated payment_status included) was
\* there.
C9_RefetchWins ==
    [][/\ \A f \in DOMAIN aptFetch :
            (f.st = "served" /\ aptFetch' = BagRemove(aptFetch, f))
            => appointments' = f.data
       /\ \A f \in DOMAIN aptFetch' :
            (f.st = "served" /\ BagCount(aptFetch', f) > BagCount(aptFetch, f))
            => f.data = server]_vars

\* a simulated "paid"/"overdue"/"pending" was shown, and the refetch that
\* another change started has put the backend's value back
C9_Witness ==
    /\ view = "list"
    /\ last.kind = "payment" /\ last.outcome = "simulated"
    /\ ops = EmptyBag /\ aptFetch = EmptyBag
    /\ clicks = 2
    /\ appointments = server
    /\ AptOf(appointments, last.id).payment_status # last.value

----------------------------------------------------------------------------
(* C10 *)

\* C10: in a refresh that combines several fetches, what every fetch that
\* succeeded returned is applied to the view state, whichever other fetch
\* failed (admin dashboard: stats, patients, appointments; appointment list:
\* appointments, doctors, patients).
C10_FailureIsolatedPerSource ==
    /\ view = "admin" =>
          /\ lastJoin["stats"] = "ok" => stats = ServerStats
          /\ lastJoin["users"] = "ok" => recentUsers = Slice(ServerPatients, RecentLimit)
          /\ lastJoin["appointments"] = "ok" => recentAppointments # <<>>
    /\ view = "list" =>
          /\ usrFetch["doctors"] = "done" => doctors = ServerDoctors
          /\ usrFetch["patients"] = "done" => patients = ServerPatients

----------------------------------------------------------------------------
(* C11 *)

\* C11: a view's refresh leaves the loading state only once all of its
\* constituent fetches have settled: at the step that sets loading to false,
\* none of the fetches the refresh issued is still in flight (admin dashboard:
\* the three GETs of the Promise.all; appointment list: fetchAppointments,
\* fetchDoctors and fetchPatients of the mount effect).
C11_ReadyOnlyWhenAllSettled ==
    [][(loading /\ ~loading') =>
          /\ view = "admin" => \A s \in Sources : lastJoin'[s] # "pending"
          /\ view = "list" => \A w \in {"doctors", "patients"} : usrFetch'[w] # "sent"]_vars

----------------------------------------------------------------------------
(* C12 *)

\* real-time mode is enabled in a mounted Reports view
TimerDue == view = "reports" /\ mounted /\ ~torn /\ realTimeMode

\* a timer callback calls fetchReportData in this step
TickFires ==
    \E tr \in TimeRanges, rt \in ReportTypes :
        repFetch' = BagAdd(repFetch, [time_range |-> tr, report_type |-> rt, origin |-> "tick"])

\* C12: the periodic refresh timer exists exactly while real-time mode is
\* enabled and the Reports view is mounted: there is one active interval then
\* and none otherwise (also after the time range or the report type changed
\* while the mode is on), and a tick triggers a refresh only while the mode is
\* enabled and the view is mounted.
C12_OneTimerWhileEnabled ==
    /\ intervals = (IF TimerDue THEN 1 ELSE 0)
    /\ [][/\ intervals' = (IF TimerDue' THEN 1 ELSE 0)
          /\ TickFires => TimerDue]_vars

\* the mode was switched on, the time range changed, a tick fired with the new
\* range, and the mode was switched off while that refresh was in flight
C12_Witness ==
    /\ view = "reports" /\ mounted /\ ~torn
    /\ ~realTimeMode /\ intervals = 0
    /\ selectedTimeRange = "week"
    /\ \E f \in DOMAIN repFetch : f.origin = "tick" /\ f.time_range = "week"

----------------------------------------------------------------------------
(* C13 *)

\* the state the three views hold in their useState hooks; after the unmount
\* the variables hold what the setters are called with
viewState == <<appointments, doctors, patients, stats, recentUsers, recentAppointments,
               reportData, isRefreshing, loading>>

\* C13: after a view (appointment list, admin dashboard, reports) is
\* unmounted, the result of a fetch that was in flight at unmount time is
\* never applied to the view's state: no state update of the view happens
\* after its teardown.
C13_NoUpdateAfterTeardown == [][torn => UNCHANGED viewState]_vars

----------------------------------------------------------------------------
(* C14 *)

\* C14: in every view that changes payment status (appointment list, admin
\* dashboard, payment debug tool), a success acknowledgment without a
\* 'simulated' / 'demo mode' label is shown for a change only after a remote
\* request for that change has succeeded.
C14_UnlabelledSuccessOnlyAfterAccept ==
    \A op \in DOMAIN ops \cup {last} :
        (op.kind = "payment" /\ "success" \in Range(op.toasts))
            => EvShapes(op.log, "ok") # {}

----------------------------------------------------------------------------
(* C15 *)

\* C15: for every appointment whose status or payment_status is absent or not
\* a member of its vocabulary, the value the view shows for that field is the
\* fallback 'pending' (lifecycle badge, payment badge, and the admin
\* dashboard's payment badge), and the pending-payment tally counts the record
\* as pending.
C15_FallbackPending ==
    screen.shown =>
        /\ \A i \in 1..Len(screen.filteredAppointments) :
              LET a == screen.filteredAppointments[i]
                  badge == screen.badges[i]
              IN /\ (view = "list" /\ a.status \notin LifecycleValues)
                        => ToLowerCase(badge.status.text) = Spell["pending"]
                 /\ a.payment_status \notin PaymentValues
                        => ToLowerCase(badge.payment.text) = Spell["pending"]
        /\ screen.pendingPayment >= 0 =>
              screen.pendingPayment =
                  Cardinality({i \in 1..Len(screen.filteredAppointments) :
                      screen.filteredAppointments[i].payment_status \notin {"paid", "overdue"}})

----------------------------------------------------------------------------
(* C16 *)

\* the record is one of the rows on the screen
Visible(a) == \E i \in 1..Len(screen.filteredAppointments) : screen.filteredAppointments[i] = a

\* C16: an appointment is in the visible list exactly when it passes the
\* search rule and the status rule and the date rule; the status rule passes
\* every record when the filter is 'all' and otherwise exactly the records
\* whose lifecycle status equals the filter value.
C16_VisibleIffAllRules ==
    (view = "list" /\ screen.shown) =>
        \A i \in 1..Len(appointments) :
            LET a == appointments[i]
            IN Visible(a) <=>
                  /\ MatchesSearch(a, searchTerm)
                  /\ (statusFilter = "all" \/ a.status = statusFilter)
                  /\ MatchesDate(a, dateFilter, now)

\* a record on the screen that passes three filters that are all set
C16_Witness ==
    /\ view = "list" /\ screen.shown
    /\ searchTerm = <<"a", "n", "n">> /\ statusFilter = "scheduled" /\ dateFilter = "today"
    /\ Len(screen.filteredAppointments) = 1

----------------------------------------------------------------------------
(* C17 *)

\* the two characters are the same letter, whatever their case
SameLetter(c, d) ==
    \/ c = d
    \/ (c \in DOMAIN LowerOf /\ LowerOf[c] = d)
    \/ (d \in DOMAIN LowerOf /\ LowerOf[d] = c)

\* term occurs in text at some offset, compared letter by letter without case
SubstringNoCase(term, text) ==
    \E off \in 0..(Len(text) - Len(term)) :
        \A i \in 1..Len(term) : SameLetter(text[off + i], term[i])

\* C17: the search rule passes a record exactly when the search term, compared
\* case-insensitively, is a substring of the doctor's display name, of the
\* patient's display name, or of the notes text; an empty search term passes
\* every record, including records with no notes and records whose doctor or
\* patient is not in the name-resolution lists.
C17_SearchRule ==
    (view = "list" /\ screen.shown) =>
        \A i \in 1..Len(appointments) :
            LET a == appointments[i]
                searchRule ==
                    \/ SubstringNoCase(searchTerm, GetUserName(a.doctor_id, "doctor"))
                    \/ SubstringNoCase(searchTerm, GetUserName(a.patient_id, "patient"))
                    \/ (a.notes.has /\ SubstringNoCase(searchTerm, a.notes.text))
                otherRules == MatchesStatus(a, statusFilter) /\ MatchesDate(a, dateFilter, now)
            IN /\ Visible(a) <=> (searchRule /\ otherRules)
               /\ (searchTerm = <<>> /\ otherRules) => Visible(a)

\* an upper-case term finds the doctor whose name is in the list
C17_Witness ==
    /\ view = "list" /\ screen.shown
    /\ searchTerm = <<"A", "N">>
    /\ doctors = ServerDoctors
    /\ Len(screen.filteredAppointments) = 1
    /\ ~screen.filteredAppointments[1].notes.has

----------------------------------------------------------------------------
(* C18 *)

\* today 00:00:00 on the clock
Midnight == now - (now % DaySeconds)

\* C18: with the date filter 'today', an appointment matches exactly when its
\* timestamp falls on the same calendar day as now: a timestamp of exactly
\* today 00:00:00 matches, and a timestamp of yesterday 23:59:59 does not.
C18_TodayRule ==
    (view = "list" /\ screen.shown /\ dateFilter = "today") =>
        \A i \in 1..Len(appointments) :
            LET a == appointments[i]
                t == a.appointment_date
                sameDay == Midnight <= t /\ t < Midnight + DaySeconds
                otherRules == MatchesSearch(a, searchTerm) /\ MatchesStatus(a, statusFilter)
            IN /\ Visible(a) <=> (sameDay /\ otherRules)
               /\ (t = Midnight /\ otherRules) => Visible(a)
               /\ t = Midnight - 1 => ~Visible(a)

\* in the afternoon, the appointment of 00:00:00 today is on the screen
C18_Witness ==
    /\ view = "list" /\ screen.shown /\ dateFilter = "today"
    /\ now # Midnight
    /\ Len(screen.filteredAppointments) = 1
    /\ screen.filteredAppointments[1].appointment_date = Midnight

----------------------------------------------------------------------------
(* C19 *)

\* C19: with the date filter 'week', an appointment matches exactly when its
\* date lies in the window from today to today plus 7 days with both ends
\* included: every appointment dated on today, on any of the next 6 days, or
\* on the day 7 days from today (at any time of that day) matches, and no
\* other appointment does.
C19_WeekRule ==
    (view = "list" /\ screen.shown /\ dateFilter = "week") =>
        \A i \in 1..Len(appointments) :
            LET a == appointments[i]
                t == a.appointment_date
                inWindow == Midnight <= t /\ t < Midnight + (WeekDays + 1) * DaySeconds
                otherRules == MatchesSearch(a, searchTerm) /\ MatchesStatus(a, statusFilter)
            IN Visible(a) <=> (inWindow /\ otherRules)

----------------------------------------------------------------------------
(* C20 *)

\* C20: with the date filter 'past', an appointment matches exactly when its
\* timestamp is strictly before the start (00:00:00) of today; no appointment
\* matches both 'past' and 'today', and every appointment with a valid
\* timestamp matches 'past' or has a timestamp at or after the start of today.
C20_PastRule ==
    (view = "list" /\ screen.shown) =>
        \A i \in 1..Len(appointments) :
            LET a == appointments[i]
                t == a.appointment_date
                before == IsValidDate(t) /\ t < Midnight
                otherRules == MatchesSearch(a, searchTerm) /\ MatchesStatus(a, statusFilter)
            IN /\ dateFilter = "past" => (Visible(a) <=> (before /\ otherRules))
               /\ ~(MatchesDate(a, "past", now) /\ MatchesDate(a, "today", now))
               /\ IsValidDate(t) => (MatchesDate(a, "past", now) \/ t >= Midnight)

\* the appointment of 23:59:59 yesterday is on the screen under 'past'
C20_Witness ==
    /\ view = "list" /\ screen.shown /\ dateFilter = "past"
    /\ Len(screen.filteredAppointments) = 1
    /\ screen.filteredAppointments[1].appointment_date = Midnight - 1

----------------------------------------------------------------------------
(* C21 *)

\* C21: the per-status tallies (scheduled, completed, cancelled, pending
\* payment) are counted over the filtered result and not over the full
\* collection: with 10 appointments of which 3 are completed, 4 scheduled and
\* 3 cancelled, and statusFilter = completed, the visible list has exactly 3
\* records and the tallies are completed = 3, scheduled = 0, cancelled = 0.
C21_TalliesOverFiltered ==
    (view = "list" /\ screen.shown /\ Len(screen.filteredAppointments) > 0) =>
        /\ \A status \in LifecycleValues :
              screen.tally[status] =
                  Cardinality({i \in 1..Len(appointments) :
                                  Visible(appointments[i]) /\ appointments[i].status = status})
        /\ screen.pendingPayment =
               Cardinality({i \in 1..Len(appointments) :
                               Visible(appointments[i])
                               /\ appointments[i].payment_status = "pending"})
        /\ (appointments = TenAppointments /\ statusFilter = "completed"
            /\ searchTerm = <<>> /\ dateFilter = "all")
              => /\ Len(screen.filteredAppointments) = 3
                 /\ screen.tally = [status \in LifecycleValues |->
                                       IF status = "completed" THEN 3 ELSE 0]

\* the ten appointments under statusFilter = completed
C21_Witness ==
    /\ view = "list" /\ screen.shown
    /\ appointments = TenAppointments /\ statusFilter = "completed"
    /\ searchTerm = <<>> /\ dateFilter = "all"
    /\ screen.tally["completed"] = 3

----------------------------------------------------------------------------
(* C22 *)

\* s can be had from t by leaving records out, without moving any
RECURSIVE IsSubsequence(_, _)
IsSubsequence(s, t) ==
    IF s = <<>> THEN TRUE
    ELSE IF t = <<>> THEN FALSE
    ELSE IF Head(s) = Head(t) THEN IsSubsequence(Tail(s), Tail(t))
    ELSE IsSubsequence(s, Tail(t))

\* C22: for every collection and every filter state, the visible list is a
\* subsequence of the collection in its original insertion order (no record
\* added, duplicated or reordered), and computing it again from the same
\* collection, filter state, name lists and current date gives the same
\* output.
C22_StableSubsequence ==
    (view = "list" /\ screen.shown) =>
        /\ IsSubsequence(screen.filteredAppointments, appointments)
        /\ screen.filteredAppointments =
               GetFilteredAppointments(appointments, searchTerm, statusFilter, dateFilter, now)

\* several of the ten appointments are on the screen, others are filtered out
C22_Witness ==
    /\ view = "list" /\ screen.shown
    /\ appointments = TenAppointments /\ dateFilter = "today"
    /\ Len(screen.filteredAppointments) = 3

----------------------------------------------------------------------------
(* C23 *)

\* C23: a payment-status change can be initiated only by a user whose role is
\* admin: every payment handler invocation, running or returned, is one of an
\* admin user, and the router renders the admin dashboard and the payment
\* debug tool for an admin user only.
C23_PaymentOnlyByAdmin ==
    /\ \A op \in DOMAIN ops \cup {last} : op.kind = "payment" => role = "admin"
    /\ \A v \in {"admin", "debug"}, r \in AnyRoles : Routed(v, r) => r = "admin"

\* an admin has started a payment-status change from the appointment list
C23_Witness ==
    /\ view = "list" /\ role = "admin"
    /\ clicks = 1
    /\ \E op \in DOMAIN ops : op.kind = "payment" /\ op.outcome = "none"

----------------------------------------------------------------------------
(* C24 *)

\* C24: no transport failure is raised out of a status mutation or a refresh:
\* for every combination of failing requests, every handler of the appointment
\* list and the admin dashboard that has returned ended in success, simulated
\* or failed with a notice, every handler that has not returned is waiting
\* for a request, and a refresh whose requests have all been answered has
\* reached its finally block.
C24_NoFailureRaised ==
    view \in ChainViews =>
        /\ last.kind # "none" =>
              /\ last.outcome \in {"success", "simulated", "failed"}
              /\ last.outcome = "failed" => "error" \in Range(last.toasts)
              /\ last.outcome = "simulated" => "success (demo mode)" \in Range(last.toasts)
              /\ last.outcome = "success" => "success" \in Range(last.toasts)
        /\ \A op \in DOMAIN ops : op.outcome = "none" /\ Pending(op) # {}
        /\ (mounted /\ clicks = 0 /\ aptFetch = EmptyBag /\ dashFetch = EmptyBag) => ~loading

\* every request of an admin dashboard payment change was rejected
C24_Witness ==
    /\ view = "admin"
    /\ last.kind = "payment" /\ last.outcome = "simulated"
    /\ EvShapes(last.log, "fail") = {PatchParam, PutBody, PatchBody}
    /\ "error" \in Range(last.toasts)

----------------------------------------------------------------------------
(* C25 *)

\* C25: when payment-status updates for different appointments overlap and
\* exhaust their fallback chains, the simulated update of the one that settles
\* later does not undo what the local collection holds for the other
\* appointments (the simulated update of the other, or a refetch result that
\* was applied between its start and its end): the step that ends a handler
\* in 'simulated' leaves every other record of the local collection as it is.
C25_SimulatedKeepsOtherRecords ==
    [][\A op \in DOMAIN ops :
         (view \in ChainViews /\ Returns(op) /\ last'.outcome = "simulated")
            => \A i \in 1..Len(Local) :
                  Local[i].id # op.id
                     => /\ HasApt(LocalNext, Local[i].id)
                        /\ AptOf(LocalNext, Local[i].id) = Local[i]]_vars

----------------------------------------------------------------------------
\* C26: under every interleaving of the start-up verification of the token,
\* login and logout, a non-null user implies that a token is stored in
\* localStorage and that the Authorization header is set, and after a logout
\* the user stays null until the next successful login.
C26_UserImpliesToken ==
    /\ user.present => (token # NoToken /\ header # NoToken)
    /\ loggedOut => ~user.present

----------------------------------------------------------------------------
\* C27: in Reports, once every report fetch has settled the displayed
\* reportData is the one of the fetch issued for the currently selected time
\* range and report type, whatever the order of arrival of the responses, and
\* isRefreshing is true whenever a report fetch is in flight.
C27_LatestReportShown ==
    (mounted /\ ~torn /\ view = "reports") =>
        /\ (repFetch = EmptyBag /\ reportData # NoReport) =>
               /\ reportData.time_range = selectedTimeRange
               /\ reportData.report_type = reportType
        /\ BagSize(repFetch) > 0 => isRefreshing

----------------------------------------------------------------------------
\* the allowedRoles of the ProtectedRoute whose child is the component
AllowedRolesOf(component) == UNION {r[2] : r \in {q \in ProtectedRoutes : q[3] = component}}

\* the components of the routes that name allowedRoles
Restricted == {r[3] : r \in {q \in ProtectedRoutes : q[2] # {}}}

\* the route the location matches, when it is a ProtectedRoute
RouteAt(location) == CHOOSE r \in ProtectedRoutes : r[1] = location

\* C28: a ProtectedRoute renders its children only when the auth loading state
\* is false, a user is present and allowedRoles is empty or contains the role
\* of the user; otherwise it renders, in this order, the spinner, the redirect
\* to /login, the redirect to /unauthorized. No role-restricted page is
\* rendered for a user of another role.
C28_ProtectedRouteGuards ==
    /\ path \in Paths \ PublicPaths =>
        LET r == RouteAt(path)
        IN  /\ authLoading => page = Spinner
            /\ (~authLoading /\ ~user.present) => page = Navigate("/login")
            /\ (~authLoading /\ user.present /\ r[2] # {} /\ user.role \notin r[2]) =>
                   page = Navigate("/unauthorized")
            /\ page = Page(r[3]) <=>
                   (~authLoading /\ user.present /\ (r[2] = {} \/ user.role \in r[2]))
    /\ (page.kind = "page" /\ page.name \in ProtectedComponents) =>
           /\ ~authLoading /\ user.present
           /\ page.name \in Restricted => user.role \in AllowedRolesOf(page.name)

\* a user whose role the route does not admit is sent to /unauthorized
C28_Witness ==
    /\ path = "/admin-dashboard" /\ user.present /\ user.role = "patient" /\ ~authLoading
    /\ page = Navigate("/unauthorized")

----------------------------------------------------------------------------
\* the dashboard component of each role that has one
DashboardOf == [patient |-> "PatientDashboard", doctor |-> "DoctorDashboard",
                admin |-> "AdminDashboard"]

\* an authenticated user is at '/' or at '/login'
AtEntry == user.present /\ path \in {"/", "/login"}

\* the redirect rendered at the entry leads to the dashboard of the role, and
\* the ProtectedRoute of that dashboard admits the role
EntryLeadsToDashboard ==
    (AtEntry /\ user.role \in DOMAIN DashboardOf) =>
        /\ page.kind = "navigate"
        /\ \E r \in ProtectedRoutes :
              /\ r[1] = page.name
              /\ r[3] = DashboardOf[user.role]
              /\ user.role \in r[2]
              /\ Element(page.name, user, FALSE) = Page(r[3])

\* C29: for every authenticated user, whatever the value of user.role,
\* following the redirects from '/' or '/login' reaches, after a bounded
\* number of redirects, a page that renders without a further redirect; for
\* the roles patient, doctor and admin that page is the dashboard of the role
\* and its ProtectedRoute admits the role.
C29_RedirectsReachAPage ==
    /\ AtEntry ~> (page.kind = "page")
    /\ []EntryLeadsToDashboard

----------------------------------------------------------------------------
\* the invocations of updateAppointmentStatus that are running
StatusOps == {op \in DOMAIN ops : op.kind = "status"}

\* C30: through the appointment list a lifecycle-status request is issued only
\* with the value completed or cancelled, and only for an appointment whose
\* locally displayed status is scheduled at the time of the click.
C30_StatusOnlyFromScheduled ==
    /\ \A op \in StatusOps :
          /\ view = "list"
          /\ op.value \in {"completed", "cancelled"}
          /\ HasApt(op.captured, op.id)
          /\ AptOf(op.captured, op.id).status = "scheduled"
    /\ (last.kind = "status") => (view = "list" /\ last.value \in {"completed", "cancelled"})

\* a status request is running for a scheduled appointment while the list
\* also shows an appointment that is not scheduled
C30_Witness ==
    /\ \E op \in StatusOps : op.id = "a1" /\ op.value = "cancelled"
    /\ \E i \in 1..Len(appointments) : appointments[i].status # "scheduled"

====
